---- MODULE Spec2Model ----
(***************************************************************************)
(* The home page of the email-agent front end (src/app/page.tsx): the      *)
(* React state of the Home component, the authentication listeners         *)
(* installed by its effect, the step reconciliation (workflowSteps) and    *)
(* the asynchronous handleSubmit.                                          *)
(*                                                                         *)
(* Representation of JavaScript values:                                    *)
(*   - a string that may be undefined/null is a TLA+ string, with the      *)
(*     sentinels Undefined and NullString for the two missing values (the  *)
(*     code reads properties only through ?. and ??, which treat an absent *)
(*     property, undefined and null alike);                                *)
(*   - an object that may be null is a record, Null being its own record;  *)
(*   - the instruction is a sequence of characters, so that trim() is      *)
(*     computed;                                                           *)
(*   - a localStorage value is a text: Text(v) is the JSON text of v,      *)
(*     Malformed a text JSON.parse rejects, EmptyText "", NoItem null.     *)
(***************************************************************************)
EXTENDS Integers, Sequences, FiniteSets, TLC

\* ------------------------------------------------------------------ bounds

\* longest instruction the user types
MaxLen == 1
\* longest server step list drawn for the reconciliation alone
MaxSteps == 2
\* most messages on their way to one tab
MaxMail == 1

\* ------------------------------------------------------ JavaScript values

Undefined == "<undefined>"
NullString == "<null>"
Null == [null |-> TRUE]

\* truthiness of a string-or-undefined: "" and undefined are falsy
Truthy(s) == s # Undefined /\ s # NullString /\ s # ""

\* a ?? b on strings
Coalesce(a, b) == IF a = Undefined \/ a = NullString THEN b ELSE a

\* String.prototype.trim on a sequence of characters
Whitespace == {" "}

RECURSIVE TrimStart(_)
TrimStart(s) ==
  IF s = <<>> THEN <<>>
  ELSE IF Head(s) \in Whitespace THEN TrimStart(Tail(s)) ELSE s

RECURSIVE TrimEnd(_)
TrimEnd(s) ==
  IF s = <<>> THEN <<>>
  ELSE IF s[Len(s)] \in Whitespace THEN TrimEnd(SubSeq(s, 1, Len(s) - 1)) ELSE s

Trim(s) == TrimEnd(TrimStart(s))

\* sequences over S of length at most n
SeqsUpTo(S, n) == UNION {[1..k -> S] : k \in 0..n}

\* ------------------------------------------------------------ JSON texts

NoItem == [text |-> "none"]
EmptyText == [text |-> "empty"]
Malformed == [text |-> "malformed"]
Text(v) == [text |-> "json", value |-> v]

\* JSON.stringify
Stringify(v) == Text(v)

\* JSON.parse: whether it throws, and its value when it does not
ParseThrows(t) == t.text # "json"
Parse(t) == t.value

\* a string is truthy unless it is null or ""
TextTruthy(t) == t # NoItem /\ t # EmptyText

\* ------------------------------------------------------- program constants

apiOrigin == "http://localhost:8000"
AUTH_STORAGE_KEY == "email-agent-auth"
THEME_STORAGE_KEY == "email-agent-theme"

Statuses == {"idle", "in_progress", "completed", "error"}

WORKFLOW_TEMPLATE ==
  << [key |-> "Input", label |-> "Input", caption |-> "Instruction"],
     [key |-> "Processing", label |-> "Processing", caption |-> "AI Planning"],
     [key |-> "Sending", label |-> "Sending", caption |-> "SMTP Dispatch"],
     [key |-> "Completed", label |-> "Completed", caption |-> "Success"] >>

TemplateKeys == {WORKFLOW_TEMPLATE[i].key : i \in DOMAIN WORKFLOW_TEMPLATE}

\* the optimistic snapshot handleSubmit publishes when it takes the lock
OptimisticSteps ==
  << [name |-> "Input", status |-> "completed", detail |-> "Instruction received."],
     [name |-> "Processing", status |-> "in_progress", detail |-> Undefined],
     [name |-> "Sending", status |-> "idle", detail |-> Undefined],
     [name |-> "Completed", status |-> "idle", detail |-> Undefined] >>

\* ------------------------------------------------------- reconciliation

NoStep == [name |-> Undefined, status |-> Undefined, detail |-> Undefined]

\* the last step named key instead of the first
Find_Last(steps, key) ==
  IF \E i \in DOMAIN steps : steps[i].name = key
  THEN steps[CHOOSE i \in DOMAIN steps :
               /\ steps[i].name = key
               /\ \A j \in (i + 1)..Len(steps) : steps[j].name # key]
  ELSE NoStep

\* Array.prototype.find(step => step.name === key): the first match, or undefined
RECURSIVE Find(_, _)
Find(steps, key) ==
  IF steps = <<>> THEN NoStep
  ELSE IF Head(steps).name = key THEN Head(steps) ELSE Find(Tail(steps), key)

\* RenderStep without the ?? "idle" default
RenderStep_NoDefault(template, steps) ==
  LET match == Find(steps, template.key)
  IN [key |-> template.key,
      label |-> template.label,
      caption |-> template.caption,
      status |-> match.status,
      detail |-> match.detail]

\* one element of the useMemo map
RenderStep(template, steps) ==
  LET match == Find(steps, template.key)
  IN [key |-> template.key,
      label |-> template.label,
      caption |-> template.caption,
      status |-> IF match = NoStep THEN "idle" ELSE Coalesce(match.status, "idle"),
      detail |-> IF match = NoStep THEN Undefined ELSE match.detail]

\* WORKFLOW_TEMPLATE.map(...)
WorkflowStepsOf(steps) ==
  [i \in DOMAIN WORKFLOW_TEMPLATE |-> RenderStep(WORKFLOW_TEMPLATE[i], steps)]

\* the text shown under a stage: step.detail ?? step.caption
Displayed(step) == Coalesce(step.detail, step.caption)

\* ---------------------------------------------------------------- inputs

Alphabet == {" ", "a"}
Instructions == SeqsUpTo(Alphabet, MaxLen)

\* AuthPayload objects a message or a stored text may carry (email, name; the
\* other fields are never read)
Payloads ==
  { [email |-> Undefined, name |-> Undefined],
    [email |-> "", name |-> "Ann"],
    [email |-> "ann@example.com", name |-> Undefined],
    [email |-> "ann@example.com", name |-> "Ann"] }

\* event.data of a message event: null or an object
MessageData == {Null} \cup Payloads
Origins == {apiOrigin, "http://evil.example"}

\* texts the store may hold under AUTH_STORAGE_KEY
StoredTexts == {NoItem, EmptyText, Malformed, Text(Null)} \cup {Text(p) : p \in Payloads}

\* what another tab running this code leaves there: a login it took, or nothing
\* after the user cleared the site's data
OtherTabTexts == {NoItem} \cup {Text(p) : p \in {q \in Payloads : Truthy(q.email)}}

\* (key, newValue) of a storage event
StorageEvents ==
  {[key |-> AUTH_STORAGE_KEY, newValue |-> t] : t \in StoredTexts}
    \cup {[key |-> THEME_STORAGE_KEY, newValue |-> t] :
            t \in {Malformed, Text([email |-> "ann@example.com", name |-> "Ann"])}}

\* values a rejected promise carries
Err(m) == [isError |-> TRUE, message |-> m]
NonError == [isError |-> FALSE, message |-> Undefined]
TransportFailures == {Err("Failed to fetch"), NonError}
ParseFailures == {Err("Unexpected token < in JSON at position 0")}

Draft ==
  [recipient_email |-> "john@example.com", subject |-> "Welcome!",
   body |-> "Hi John\nWelcome aboard."]

AllCompleted ==
  << [name |-> "Input", status |-> "completed", detail |-> Undefined],
     [name |-> "Processing", status |-> "completed", detail |-> Undefined],
     [name |-> "Sending", status |-> "completed", detail |-> Undefined],
     [name |-> "Completed", status |-> "completed", detail |-> Undefined] >>

FailedRun ==
  << [name |-> "Input", status |-> "completed", detail |-> Undefined],
     [name |-> "Processing", status |-> "error", detail |-> "Model unavailable"],
     [name |-> "Audit", status |-> "idle", detail |-> Undefined] >>

\* parsed response bodies (AgentResponse, every field optional at run time);
\* hasSteps = FALSE is a body whose steps field is missing or null
Body(status, message, hasSteps, steps, email) ==
  [status |-> status, message |-> message, hasSteps |-> hasSteps,
   steps |-> steps, generated_email |-> email]

ResponseBodies ==
  { Null,
    Body("completed", "Email sent", TRUE, AllCompleted, Draft),
    Body("completed", "Nothing to do", TRUE, <<>>, Null),
    Body("error", "Quota exceeded", TRUE, FailedRun, Null),
    Body("error", "", FALSE, <<>>, Null),
    Body(Undefined, Undefined, FALSE, <<>>, Null) }

\* ----------------------------------------------------------------- state

VARIABLES
  instruction,      \* useState: the input's text
  serverSteps,      \* useState: the last step list
  currentStatus,    \* useState
  isSubmitting,     \* useState: the in-flight lock
  submitError,      \* useState: string | null
  authError,        \* useState: string | null
  user,             \* useState: AuthPayload | null
  generatedEmail,   \* useState: the draft | null
  workflowSteps,    \* useMemo over serverSteps
  localStorage,     \* the text stored under AUTH_STORAGE_KEY
  mounted,          \* the effect has run: restore done, listeners installed
  calls,            \* handleSubmit invocations suspended at an await, oldest first
  running,          \* the handleSubmit continuation now executing, or Idle
  fetched,          \* the request bodies the last step passed to fetch()
  theme,            \* useState of the themed variant: "light" | "dark"
  themeItem,        \* the text stored under THEME_STORAGE_KEY, or NullString
  route,            \* the page the window shows: "/auth/callback" or "/"
  tabUser,          \* two tabs of the origin: the user state of each
  tabQueue,         \* two tabs: the storage events not yet delivered to each
  tabMail,          \* two tabs: the message events not yet delivered to each
  ev                \* the last event handled and its inputs

pageVars ==
  <<instruction, serverSteps, currentStatus, isSubmitting, submitError,
    generatedEmail, workflowSteps>>
authVars == <<user, authError, localStorage>>
themeVars == <<theme, themeItem>>
tabVars == <<tabUser, tabQueue, tabMail>>
vars ==
  <<instruction, serverSteps, currentStatus, isSubmitting, submitError, authError,
    user, generatedEmail, workflowSteps, localStorage, mounted, calls, running,
    fetched, theme, themeItem, route, tabUser, tabQueue, tabMail, ev>>

Idle == [pc |-> "idle"]

\* the state after the first render, before the effects run
InitPage ==
  /\ instruction = <<>>
  /\ serverSteps = <<>>
  /\ currentStatus = "idle"
  /\ isSubmitting = FALSE
  /\ submitError = NullString
  /\ authError = NullString
  /\ user = Null
  /\ generatedEmail = Null
  /\ workflowSteps = WorkflowStepsOf(<<>>)
  /\ theme = "light"
  /\ mounted = FALSE
  /\ calls = <<>>
  /\ running = Idle
  /\ fetched = <<>>
  /\ ev = [type |-> "load"]

\* the window shows the home page, and no other tab of the origin is modelled
OneTab ==
  /\ route = "/"
  /\ tabUser = <<>> /\ tabQueue = <<>> /\ tabMail = <<>>

\* the plain variant: the store holds any session entry; the theme entry is
\* neither read nor written
Init ==
  /\ InitPage
  /\ OneTab
  /\ localStorage \in StoredTexts
  /\ themeItem = NullString

\* a handler may start: the listeners are installed and no other JavaScript runs
Ready == mounted /\ running = Idle

\* ------------------------------------------------------ AuthSessionSync

\* value?.email and value?.name
EmailOf(v) == IF v = Null THEN Undefined ELSE v.email
NameOf(v) == IF v = Null THEN Undefined ELSE v.name

\* restoreFromStorage without the test of parsed?.email
restoreFromStorage_NoEmailCheck(stored, current) ==
  IF TextTruthy(stored) /\ ~ParseThrows(stored) THEN Parse(stored) ELSE current

\* restoreFromStorage: the identity it leaves, given the stored text and the
\* current identity (a parse failure is caught and logged)
restoreFromStorage(stored, current) ==
  IF TextTruthy(stored)
  THEN IF ParseThrows(stored) THEN current
       ELSE IF Truthy(EmailOf(Parse(stored))) THEN Parse(stored) ELSE current
  ELSE current

\* the effect of Home: restore, then install the two listeners
AuthEffect ==
  /\ route = "/" /\ ~mounted
  /\ user' = restoreFromStorage(localStorage, user)
  /\ mounted' = TRUE
  /\ ev' = [type |-> "restore"]
  /\ fetched' = <<>>
  /\ UNCHANGED <<pageVars, authError, localStorage, calls, running, themeVars, route, tabVars>>

\* the guard without the origin test
MessageAccepted_AnyOrigin(origin, data) == Truthy(EmailOf(data))

\* the guard testing event.data instead of event.data?.email
MessageAccepted_NoEmailCheck(origin, data) == origin = apiOrigin /\ data # Null

\* the guard of messageHandler, negated: the message is taken
MessageAccepted(origin, data) == origin = apiOrigin /\ Truthy(EmailOf(data))

\* messageHandler clearing the submission's error with the authentication error
messageHandler_ClearsSubmitError(origin, data) ==
  /\ Ready
  /\ IF MessageAccepted(origin, data)
     THEN /\ user' = data
          /\ localStorage' = Stringify(data)
          /\ authError' = NullString
          /\ submitError' = NullString
     ELSE UNCHANGED <<authVars, submitError>>
  /\ ev' = [type |-> "message", origin |-> origin, data |-> data,
            hadAuthError |-> (authError # NullString)]
  /\ fetched' = <<>>
  /\ UNCHANGED <<instruction, serverSteps, currentStatus, isSubmitting, generatedEmail,
                 workflowSteps, mounted, themeVars, route, tabVars, calls, running>>

messageHandler(origin, data) ==
  /\ Ready
  /\ IF MessageAccepted(origin, data)
     THEN /\ user' = data
          /\ localStorage' = Stringify(data)
          /\ authError' = NullString
     ELSE UNCHANGED authVars
  /\ ev' = [type |-> "message", origin |-> origin, data |-> data,
            hadAuthError |-> (authError # NullString)]
  /\ fetched' = <<>>
  /\ UNCHANGED <<pageVars, mounted, themeVars, route, tabVars, calls, running>>

\* the test of storageHandler without the comparison of event.key
StorageAccepted_AnyKey(key, newValue) ==
  /\ TextTruthy(newValue)
  /\ ~ParseThrows(newValue)
  /\ Truthy(EmailOf(Parse(newValue)))

\* the test of storageHandler: the changed entry is published as identity
StorageAccepted(key, newValue) ==
  /\ key = AUTH_STORAGE_KEY
  /\ TextTruthy(newValue)
  /\ ~ParseThrows(newValue)
  /\ Truthy(EmailOf(Parse(newValue)))

\* storageHandler taking the removal of the session entry as a logout
storageHandler_LogoutOnRemoval(key, newValue) ==
  /\ Ready
  /\ user' = IF StorageAccepted(key, newValue) THEN Parse(newValue)
             ELSE IF key = AUTH_STORAGE_KEY /\ newValue = NoItem THEN Null
             ELSE user
  /\ ev' = [type |-> "storage", key |-> key, newValue |-> newValue]
  /\ fetched' = <<>>
  /\ UNCHANGED <<pageVars, authError, localStorage, mounted, themeVars, route, tabVars, calls, running>>

storageHandler(key, newValue) ==
  /\ Ready
  /\ user' = IF StorageAccepted(key, newValue) THEN Parse(newValue) ELSE user
  /\ ev' = [type |-> "storage", key |-> key, newValue |-> newValue]
  /\ fetched' = <<>>
  /\ UNCHANGED <<pageVars, authError, localStorage, mounted, themeVars, route, tabVars, calls, running>>

\* another tab of the origin, or the callback page, rewrites the shared entry
OtherTabWrite(text) ==
  /\ running = Idle
  /\ localStorage' = text
  /\ ev' = [type |-> "write"]
  /\ fetched' = <<>>
  /\ UNCHANGED <<pageVars, user, authError, mounted, themeVars, route, tabVars, calls, running>>

PopupBlockedMessage == "Please allow pop-ups to connect your Google account."

\* handleGoogleConnect with the test inverted: the error is set when the popup
\* opened
handleGoogleConnect_ErrorWhenOpened(blocked) ==
  /\ Ready
  /\ authError' = IF ~blocked THEN PopupBlockedMessage ELSE authError
  /\ ev' = [type |-> "connect", blocked |-> blocked]
  /\ fetched' = <<>>
  /\ UNCHANGED <<pageVars, user, localStorage, mounted, themeVars, route, tabVars, calls, running>>

\* handleGoogleConnect: window.open returned null (blocked) or the popup
handleGoogleConnect(blocked) ==
  /\ Ready
  /\ authError' = IF blocked THEN PopupBlockedMessage ELSE authError
  /\ ev' = [type |-> "connect", blocked |-> blocked]
  /\ fetched' = <<>>
  /\ UNCHANGED <<pageVars, user, localStorage, mounted, themeVars, route, tabVars, calls, running>>

\* onChange also putting the status back to idle
setInstruction_ResetsStatus(text) ==
  /\ Ready
  /\ instruction' = text
  /\ currentStatus' = "idle"
  /\ ev' = [type |-> "input"]
  /\ fetched' = <<>>
  /\ UNCHANGED <<serverSteps, isSubmitting, submitError, generatedEmail,
                 workflowSteps, authVars, mounted, themeVars, route, tabVars, calls, running>>

\* onChange of the input
setInstruction(text) ==
  /\ Ready
  /\ instruction' = text
  /\ ev' = [type |-> "input"]
  /\ fetched' = <<>>
  /\ UNCHANGED <<serverSteps, currentStatus, isSubmitting, submitError, generatedEmail,
                 workflowSteps, authVars, mounted, themeVars, route, tabVars, calls, running>>

\* ------------------------------------------------- SubmissionController

GenericFailure == "Unable to process automation request."
UnexpectedError == "Unexpected error"
NullBodyError == "Cannot read properties of null (reading 'steps')"

\* the guard without the isSubmitting test
SubmitRejected_NoLock == Trim(instruction) = <<>>

\* the guard without trim()
SubmitRejected_NoTrim == instruction = <<>> \/ isSubmitting

\* the guard of handleSubmit: the call returns at once
SubmitRejected == Trim(instruction) = <<>> \/ isSubmitting

\* the lock taken without clearing the previous draft
TakeLock_KeepsDraft ==
  /\ isSubmitting' = TRUE
  /\ submitError' = NullString
  /\ generatedEmail' = generatedEmail
  /\ currentStatus' = "in_progress"
  /\ serverSteps' = OptimisticSteps
  /\ workflowSteps' = WorkflowStepsOf(OptimisticSteps)

\* the five state updates before the request: the lock, the cleared error and
\* draft, the status and the optimistic snapshot
TakeLock ==
  /\ isSubmitting' = TRUE
  /\ submitError' = NullString
  /\ generatedEmail' = Null
  /\ currentStatus' = "in_progress"
  /\ serverSteps' = OptimisticSteps
  /\ workflowSteps' = WorkflowStepsOf(OptimisticSteps)

\* the body of the request without the identity
RequestBody_NoIdentity ==
  [instruction |-> instruction, user_email |-> Undefined, user_name |-> Undefined]

\* the body of the request: instruction, user?.email, user?.name
RequestBody ==
  [instruction |-> instruction, user_email |-> EmailOf(user), user_name |-> NameOf(user)]

\* handleSubmit up to its first await: the guard, the lock and the optimistic
\* snapshot, and the fetch call
handleSubmit ==
  /\ Ready
  /\ IF SubmitRejected
     THEN /\ UNCHANGED <<pageVars, calls>>
          /\ fetched' = <<>>
          /\ ev' = [type |-> "submit", accepted |-> FALSE]
     ELSE /\ TakeLock
          /\ fetched' = <<RequestBody>>
          /\ calls' = Append(calls, [phase |-> "fetch", ok |-> FALSE, body |-> RequestBody])
          /\ ev' = [type |-> "submit", accepted |-> TRUE,
                    hadDraft |-> (generatedEmail # Null),
                    hadError |-> (submitError # NullString)]
          /\ UNCHANGED instruction
  /\ UNCHANGED <<authVars, mounted, themeVars, route, tabVars, running>>

\* what the response of a call turned out to be, kept while its continuation runs
Response(kind, ok, body, failure) ==
  [kind |-> kind, ok |-> ok, body |-> body, failure |-> failure]

\* the suspended calls without the i-th, which resumes
Without(s, i) == SubSeq(s, 1, i - 1) \o SubSeq(s, i + 1, Len(s))

\* a failed call issued again instead of entering the catch block
EnterCatch_Retries(i, thrown, resp) ==
  /\ calls' = [calls EXCEPT ![i].phase = "fetch"]
  /\ fetched' = <<calls[i].body>>
  /\ running' = running

\* the continuation enters the catch block with the thrown value
EnterCatch(i, thrown, resp) ==
  /\ calls' = Without(calls, i)
  /\ fetched' = <<>>
  /\ running' = [pc |-> "setSubmitError", thrown |-> thrown, resp |-> resp]

\* await fetch(...) rejects: a transport failure
FetchRejects(i, e) ==
  /\ Ready
  /\ i \in DOMAIN calls /\ calls[i].phase = "fetch"
  /\ EnterCatch(i, e, Response("transport", FALSE, Null, e))
  /\ ev' = [type |-> "response"]
  /\ UNCHANGED <<pageVars, authVars, mounted, themeVars, route, tabVars>>

\* await fetch(...) resolves with a response, ok or not; response.json() is awaited
FetchResolves(i, ok) ==
  /\ Ready
  /\ i \in DOMAIN calls /\ calls[i].phase = "fetch"
  /\ calls' = [calls EXCEPT ![i].phase = "json", ![i].ok = ok]
  /\ fetched' = <<>>
  /\ ev' = [type |-> "response"]
  /\ UNCHANGED <<pageVars, authVars, mounted, themeVars, route, tabVars, running>>

\* await response.json() rejects: the body is not JSON
JsonRejects(i, e) ==
  /\ Ready
  /\ i \in DOMAIN calls /\ calls[i].phase = "json"
  /\ EnterCatch(i, e, Response("parse", calls[i].ok, Null, e))
  /\ ev' = [type |-> "response"]
  /\ UNCHANGED <<pageVars, authVars, mounted, themeVars, route, tabVars>>

\* data?.message
MessageOf(data) == IF data = Null THEN Undefined ELSE data.message

\* the Error thrown with the generic text whatever the body says
HttpError_Generic(data) == Err(GenericFailure)

\* the Error thrown for a response that is not ok
HttpError(data) == Err(Coalesce(MessageOf(data), GenericFailure))

\* await response.json() resolves with the parsed body
JsonResolves(i, data) ==
  /\ Ready
  /\ i \in DOMAIN calls /\ calls[i].phase = "json"
  /\ IF ~calls[i].ok
     THEN EnterCatch(i, HttpError(data), Response("http", FALSE, data, HttpError(data)))
     ELSE IF data = Null
     THEN EnterCatch(i, Err(NullBodyError), Response("http", TRUE, Null, Err(NullBodyError)))
     ELSE /\ calls' = Without(calls, i)
          /\ fetched' = <<>>
          /\ running' = [pc |-> "setServerSteps", data |-> data,
                         resp |-> Response("http", TRUE, data, NonError)]
  /\ ev' = [type |-> "response"]
  /\ UNCHANGED <<pageVars, authVars, mounted, themeVars, route, tabVars>>

\* a missing step list leaving the optimistic snapshot in place
StepsOf_KeepSnapshot(data) == IF data.hasSteps THEN data.steps ELSE OptimisticSteps

\* data.steps ?? [], data.status ?? "error", data.generated_email ?? null
StepsOf(data) == IF data.hasSteps THEN data.steps ELSE <<>>
StatusOf(data) == Coalesce(data.status, "error")
EmailDraftOf(data) == data.generated_email

\* the continuation moves to its next statement
Goto(pc) ==
  /\ running' = [running EXCEPT !.pc = pc]
  /\ ev' = [type |-> "update"]
  /\ fetched' = <<>>
  /\ UNCHANGED <<authVars, mounted, themeVars, route, tabVars, calls>>

\* setServerSteps called only for a step list that has elements
SuccessSetServerSteps_SkipsEmpty ==
  /\ running.pc = "setServerSteps"
  /\ serverSteps' = IF StepsOf(running.data) = <<>> THEN serverSteps
                    ELSE StepsOf(running.data)
  /\ workflowSteps' = WorkflowStepsOf(serverSteps')
  /\ Goto("setCurrentStatus")
  /\ UNCHANGED <<instruction, currentStatus, isSubmitting, submitError, generatedEmail>>

\* setServerSteps(data.steps ?? [])
SuccessSetServerSteps ==
  /\ running.pc = "setServerSteps"
  /\ serverSteps' = StepsOf(running.data)
  /\ workflowSteps' = WorkflowStepsOf(StepsOf(running.data))
  /\ Goto("setCurrentStatus")
  /\ UNCHANGED <<instruction, currentStatus, isSubmitting, submitError, generatedEmail>>

\* setCurrentStatus(data.status ?? "error")
SuccessSetCurrentStatus ==
  /\ running.pc = "setCurrentStatus"
  /\ currentStatus' = StatusOf(running.data)
  /\ Goto("setGeneratedEmail")
  /\ UNCHANGED <<instruction, serverSteps, workflowSteps, isSubmitting, submitError,
                 generatedEmail>>

\* setGeneratedEmail(data.generated_email ?? null)
SuccessSetGeneratedEmail ==
  /\ running.pc = "setGeneratedEmail"
  /\ generatedEmail' = EmailDraftOf(running.data)
  /\ Goto("setInstruction")
  /\ UNCHANGED <<instruction, serverSteps, workflowSteps, currentStatus, isSubmitting,
                 submitError>>

\* setInstruction("")
SuccessSetInstruction ==
  /\ running.pc = "setInstruction"
  /\ instruction' = <<>>
  /\ Goto("finally")
  /\ UNCHANGED <<serverSteps, workflowSteps, currentStatus, isSubmitting, submitError,
                 generatedEmail>>

\* error.message without the instanceof test
CaughtMessage_NoFallback(thrown) == thrown.message

\* error instanceof Error ? error.message : "Unexpected error"
CaughtMessage(thrown) == IF thrown.isError THEN thrown.message ELSE UnexpectedError

\* the lock released by the first statement of the catch block, not by finally
CatchSetSubmitError_ReleasesLock ==
  /\ running.pc = "setSubmitError"
  /\ submitError' = CaughtMessage(running.thrown)
  /\ isSubmitting' = FALSE
  /\ running' = [running EXCEPT !.pc = "setStatusError"]
  /\ ev' = [type |-> "update"]
  /\ fetched' = <<>>
  /\ UNCHANGED <<instruction, serverSteps, workflowSteps, currentStatus, generatedEmail,
                 authVars, mounted, themeVars, route, tabVars, calls>>

\* setSubmitError(message)
CatchSetSubmitError ==
  /\ running.pc = "setSubmitError"
  /\ submitError' = CaughtMessage(running.thrown)
  /\ Goto("setStatusError")
  /\ UNCHANGED <<instruction, serverSteps, workflowSteps, currentStatus, isSubmitting,
                 generatedEmail>>

\* the catch block also emptying the input
CatchSetCurrentStatus_ClearsInstruction ==
  /\ running.pc = "setStatusError"
  /\ currentStatus' = "error"
  /\ instruction' = <<>>
  /\ Goto("finally")
  /\ UNCHANGED <<serverSteps, workflowSteps, isSubmitting, submitError, generatedEmail>>

\* setCurrentStatus("error")
CatchSetCurrentStatus ==
  /\ running.pc = "setStatusError"
  /\ currentStatus' = "error"
  /\ Goto("finally")
  /\ UNCHANGED <<instruction, serverSteps, workflowSteps, isSubmitting, submitError,
                 generatedEmail>>

\* finally also clearing the authentication error
FinallyRelease_ClearsAuthError ==
  /\ running.pc = "finally"
  /\ isSubmitting' = FALSE
  /\ authError' = NullString
  /\ running' = Idle
  /\ ev' = [type |-> "settled", resp |-> running.resp]
  /\ fetched' = <<>>
  /\ UNCHANGED <<instruction, serverSteps, workflowSteps, currentStatus, submitError,
                 generatedEmail, user, localStorage, mounted, themeVars, route, tabVars, calls>>

\* the lock released in the try block, after setInstruction(""), and not in
\* finally
FinallyRelease_OnlyAfterSuccess ==
  /\ running.pc = "finally"
  /\ isSubmitting' = IF running.resp.kind = "http" /\ running.resp.ok THEN FALSE
                     ELSE isSubmitting
  /\ running' = Idle
  /\ ev' = [type |-> "settled", resp |-> running.resp]
  /\ fetched' = <<>>
  /\ UNCHANGED <<instruction, serverSteps, workflowSteps, currentStatus, submitError,
                 generatedEmail, authVars, mounted, themeVars, route, tabVars, calls>>

\* finally: setIsSubmitting(false); the continuation ends
FinallyRelease ==
  /\ running.pc = "finally"
  /\ isSubmitting' = FALSE
  /\ running' = Idle
  /\ ev' = [type |-> "settled", resp |-> running.resp]
  /\ fetched' = <<>>
  /\ UNCHANGED <<instruction, serverSteps, workflowSteps, currentStatus, submitError,
                 generatedEmail, authVars, mounted, themeVars, route, tabVars, calls>>

\* ------------------------------------------------------------ specification

\* the handlers and continuation steps the two variants of Home share
Handlers ==
  \/ \E o \in Origins, d \in MessageData : messageHandler(o, d)
  \/ \E e \in StorageEvents : storageHandler(e.key, e.newValue)
  \/ \E t \in OtherTabTexts : OtherTabWrite(t)
  \/ \E b \in BOOLEAN : handleGoogleConnect(b)
  \/ \E t \in Instructions : setInstruction(t)
  \/ handleSubmit
  \/ \E i \in DOMAIN calls, e \in TransportFailures : FetchRejects(i, e)
  \/ \E i \in DOMAIN calls, ok \in BOOLEAN : FetchResolves(i, ok)
  \/ \E i \in DOMAIN calls, e \in ParseFailures : JsonRejects(i, e)
  \/ \E i \in DOMAIN calls, d \in ResponseBodies : JsonResolves(i, d)
  \/ SuccessSetServerSteps
  \/ SuccessSetCurrentStatus
  \/ SuccessSetGeneratedEmail
  \/ SuccessSetInstruction
  \/ CatchSetSubmitError
  \/ CatchSetCurrentStatus
  \/ FinallyRelease

Next == AuthEffect \/ Handlers

Spec == Init /\ [][Next]_vars

\* -------------------------------------------- the page with its scheduling

\* the remote call responds or fails: a promise handleSubmit awaits settles
Arrival ==
  \E i \in DOMAIN calls :
    \/ \E e \in TransportFailures : FetchRejects(i, e)
    \/ \E ok \in BOOLEAN : FetchResolves(i, ok)
    \/ \E e \in ParseFailures : JsonRejects(i, e)
    \/ \E d \in ResponseBodies : JsonResolves(i, d)

\* the statements of handleSubmit after its last await
Continuation ==
  \/ SuccessSetServerSteps
  \/ SuccessSetCurrentStatus
  \/ SuccessSetGeneratedEmail
  \/ SuccessSetInstruction
  \/ CatchSetSubmitError
  \/ CatchSetCurrentStatus
  \/ FinallyRelease

\* the page and its submissions: the user types and submits, in any store
SubmissionNext ==
  \/ AuthEffect
  \/ \E t \in Instructions : setInstruction(t)
  \/ handleSubmit
  \/ Arrival
  \/ Continuation

\* the event loop runs a resumed continuation to its end, and every awaited
\* promise settles
SpecFair ==
  Init /\ [][SubmissionNext]_vars /\ WF_vars(Continuation) /\ WF_vars(Arrival)

\* ------------------------------------------------------ the themed variant

\* texts the store may hold under THEME_STORAGE_KEY; NullString when it has none
ThemeItems == {NullString, "light", "dark", "sepia"}

\* initialTheme: the stored theme if it is one, else the system preference
InitialTheme(stored, prefersDark) ==
  IF stored = "light" \/ stored = "dark" THEN stored
  ELSE IF prefersDark THEN "dark" ELSE "light"

\* the effect keyed on theme: localStorage.setItem(THEME_STORAGE_KEY, theme)
PersistTheme(t) == themeItem' = t

\* the three effects of the themed Home after its first render: the initial
\* theme is read and set, the theme is persisted (as "light", and again after
\* the render that follows setTheme), the identity is restored and the
\* listeners are installed
ThemedEffects(prefersDark) ==
  /\ route = "/" /\ ~mounted
  /\ theme' = InitialTheme(themeItem, prefersDark)
  /\ PersistTheme(theme')
  /\ user' = restoreFromStorage(localStorage, user)
  /\ mounted' = TRUE
  /\ ev' = [type |-> "restore"]
  /\ fetched' = <<>>
  /\ UNCHANGED <<pageVars, authError, localStorage, calls, running, route, tabVars>>

\* toggleTheme remounting the form: the input is emptied
toggleTheme_ClearsInstruction ==
  /\ Ready
  /\ theme' = IF theme = "light" THEN "dark" ELSE "light"
  /\ PersistTheme(theme')
  /\ instruction' = <<>>
  /\ ev' = [type |-> "theme"]
  /\ fetched' = <<>>
  /\ UNCHANGED <<serverSteps, currentStatus, isSubmitting, submitError, generatedEmail,
                 workflowSteps, authVars, mounted, calls, running, route, tabVars>>

\* toggleTheme, and the persistence effect after the render
toggleTheme ==
  /\ Ready
  /\ theme' = IF theme = "light" THEN "dark" ELSE "light"
  /\ PersistTheme(theme')
  /\ ev' = [type |-> "theme"]
  /\ fetched' = <<>>
  /\ UNCHANGED <<pageVars, authVars, mounted, calls, running, route, tabVars>>

\* the themed variant over a store this code wrote: a session entry a login
\* left, or none, and any theme entry
ThemedInit ==
  /\ InitPage
  /\ OneTab
  /\ localStorage \in OtherTabTexts
  /\ themeItem \in ThemeItems

ThemedNext ==
  \/ \E d \in BOOLEAN : ThemedEffects(d)
  \/ toggleTheme
  \/ Handlers

SpecThemed == ThemedInit /\ [][ThemedNext]_vars

\* ------------------------------------------------------ the callback page

\* the payload query parameter: none, or a text
PayloadParams == StoredTexts

\* the test of the callback page without parsed?.email
CallbackWrites_NoEmailCheck(payload) ==
  TextTruthy(payload) /\ ~ParseThrows(payload) /\ Parse(payload) # Null

\* the callback page stores the payload: it is a non-empty text that parses to
\* a value with a truthy email
CallbackWrites(payload) ==
  /\ TextTruthy(payload)
  /\ ~ParseThrows(payload)
  /\ Truthy(EmailOf(Parse(payload)))

\* the effect of AuthCallbackPage: the payload is stored or not, then
\* router.replace("/")
AuthCallbackPage(payload) ==
  /\ route = "/auth/callback"
  /\ localStorage' = IF CallbackWrites(payload) THEN Stringify(Parse(payload))
                     ELSE localStorage
  /\ route' = "/"
  /\ ev' = [type |-> "callback", payload |-> payload]
  /\ fetched' = <<>>
  /\ UNCHANGED <<pageVars, user, authError, mounted, calls, running, themeVars, tabVars>>

\* the window shows the callback page, over any session entry
CallbackInit ==
  /\ InitPage
  /\ route = "/auth/callback"
  /\ tabUser = <<>> /\ tabQueue = <<>> /\ tabMail = <<>>
  /\ localStorage \in StoredTexts
  /\ themeItem = NullString

\* the callback page, then the home page it navigates to
CallbackNext ==
  \/ \E p \in PayloadParams : AuthCallbackPage(p)
  \/ Next

SpecCallback == CallbackInit /\ [][CallbackNext]_vars

\* ------------------------------------- two tabs of the origin, one store

Tabs == {1, 2}
OtherTab(t) == 3 - t

\* message events on their way to a tab: logins from the remote service, a
\* message of another origin, a message without payload
TabMessages ==
  {[origin |-> apiOrigin, data |-> p] : p \in {q \in Payloads : Truthy(q.email)}}
    \cup {[origin |-> "http://evil.example",
           data |-> [email |-> "ann@example.com", name |-> "Ann"]],
          [origin |-> apiOrigin, data |-> Null]}

\* messageHandler in tab t, for the oldest message on its way there; the
\* browser queues a storage event for the other tab when setItem changes the
\* entry
TabMessage(t) ==
  /\ tabMail[t] # <<>>
  /\ LET m == Head(tabMail[t])
     IN IF MessageAccepted(m.origin, m.data)
        THEN /\ tabUser' = [tabUser EXCEPT ![t] = m.data]
             /\ localStorage' = Stringify(m.data)
             /\ tabQueue' =
                  IF Stringify(m.data) = localStorage THEN tabQueue
                  ELSE [tabQueue EXCEPT
                          ![OtherTab(t)] = Append(@, Stringify(m.data))]
        ELSE UNCHANGED <<tabUser, localStorage, tabQueue>>
  /\ tabMail' = [tabMail EXCEPT ![t] = Tail(@)]
  /\ ev' = [type |-> "tabMessage", tab |-> t]
  /\ UNCHANGED <<pageVars, user, authError, mounted, calls, running, fetched,
                 themeVars, route>>

\* storageHandler in tab t, for the oldest storage event queued for it
TabStorage(t) ==
  /\ tabQueue[t] # <<>>
  /\ LET newValue == Head(tabQueue[t])
     IN tabUser' = [tabUser EXCEPT
                      ![t] = IF StorageAccepted(AUTH_STORAGE_KEY, newValue)
                             THEN Parse(newValue) ELSE @]
  /\ tabQueue' = [tabQueue EXCEPT ![t] = Tail(@)]
  /\ ev' = [type |-> "tabStorage", tab |-> t]
  /\ UNCHANGED <<pageVars, authVars, mounted, calls, running, fetched, themeVars,
                 route, tabMail>>

\* both tabs have loaded over the same entry, which a login left or which is
\* absent, and restored it; messages are on their way to each
TabsInit ==
  /\ InitPage
  /\ route = "/"
  /\ themeItem = NullString
  /\ localStorage \in OtherTabTexts
  /\ tabUser = [t \in Tabs |-> restoreFromStorage(localStorage, Null)]
  /\ tabQueue = [t \in Tabs |-> <<>>]
  /\ tabMail \in [Tabs -> SeqsUpTo(TabMessages, MaxMail)]

TabsNext == \E t \in Tabs : TabMessage(t) \/ TabStorage(t)

SpecTabs == TabsInit /\ [][TabsNext]_vars

\* ------------------------------------- the reconciliation alone: inputs

\* server steps: any name (a template key or not), any status or none, a detail
\* or none
StepNames == TemplateKeys \cup {"Audit"}
StepDetails == {Undefined, "Instruction", "Working"}
ServerSteps ==
  {[name |-> n, status |-> st, detail |-> d] :
     n \in StepNames, st \in Statuses \cup {Undefined}, d \in StepDetails}

\* the page renders with the step list a response left in serverSteps
RenderWith(steps) ==
  /\ ev.type = "restore"
  /\ serverSteps' = steps
  /\ workflowSteps' = WorkflowStepsOf(steps)
  /\ ev' = [type |-> "render"]
  /\ fetched' = <<>>
  /\ UNCHANGED <<instruction, currentStatus, isSubmitting, submitError, generatedEmail,
                 authVars, mounted, themeVars, route, tabVars, calls, running>>

ReconcileInit == Init /\ localStorage = NoItem

ReconcileNext ==
  \/ AuthEffect
  \/ /\ ev.type = "restore"
     /\ \E n \in 0..MaxSteps : \E steps \in [1..n -> ServerSteps] : RenderWith(steps)

SpecReconcile == ReconcileInit /\ [][ReconcileNext]_vars

\* ------------------------------------------------------------------ claims

\* whether some element of the list is named key
HasStep(steps, key) == \E i \in DOMAIN steps : steps[i].name = key

\* the first element of the list named key (when there is one)
FirstStep(steps, key) ==
  steps[CHOOSE i \in DOMAIN steps :
          /\ steps[i].name = key
          /\ \A j \in 1..(i - 1) : steps[j].name # key]

\* four RenderSteps, in the order Input, Processing, Sending, Completed
FourInOrder ==
  /\ Len(workflowSteps) = 4
  /\ [i \in 1..4 |-> workflowSteps[i].key] = <<"Input", "Processing", "Sending", "Completed">>

\* a RenderStep that looks untouched: idle, showing the template caption
LooksIdle(step) == step.status = "idle" /\ Displayed(step) = step.caption

\* C3 as stated: four RenderSteps in template order, and a RenderStep is idle
\* with the caption displayed if and only if no server step has its key.
C3_Original ==
  /\ FourInOrder
  /\ \A i \in DOMAIN workflowSteps :
       LooksIdle(workflowSteps[i]) <=> ~HasStep(serverSteps, workflowSteps[i].key)

\* C3 amended: four RenderSteps in template order; a RenderStep whose key no
\* server step has is idle with the caption displayed; one whose key a server
\* step has is idle with the caption displayed exactly when the first such step
\* has status idle (or none) and no detail (or the caption as its detail).
C3_Reconcile ==
  /\ FourInOrder
  /\ \A i \in DOMAIN workflowSteps :
       LET r == workflowSteps[i]
       IN IF HasStep(serverSteps, r.key)
          THEN LET m == FirstStep(serverSteps, r.key)
               IN LooksIdle(r) <=>
                    /\ m.status \in {"idle", Undefined}
                    /\ m.detail \in {Undefined, r.caption}
          ELSE LooksIdle(r)

\* C3 witness: a rendered list with a name outside the template, a template key
\* reported idle without detail, and a template key not reported at all
C3_Witness ==
  /\ ev.type = "render"
  /\ Len(serverSteps) = 2
  /\ \E i \in DOMAIN serverSteps : serverSteps[i].name \notin TemplateKeys
  /\ \E i \in DOMAIN serverSteps :
       /\ serverSteps[i].name = "Sending"
       /\ serverSteps[i].status = "idle"
       /\ serverSteps[i].detail = Undefined
  /\ ~HasStep(serverSteps, "Input")

\* submissions accepted and not yet resolved: suspended at an await, or resumed
\* and not yet through finally
Unresolved == Len(calls) + (IF running = Idle THEN 0 ELSE 1)

\* C1: at most one submission is unresolved at any time, the lock is held
\* exactly while one is, and after a submit made while one is unresolved (a
\* non-blank instruction, rejected) exactly one request is outstanding.
C1_SingleFlight ==
  /\ Unresolved <= 1
  /\ isSubmitting <=> Unresolved = 1
  /\ (ev.type = "submit" /\ isSubmitting) =>
       IF ev.accepted THEN Len(calls) = 1 /\ calls[1].phase = "fetch"
       ELSE Len(calls) = 1

\* C1 witness: a second submit of a non-blank instruction, made while the first
\* has not resolved, was rejected
C1_Witness ==
  /\ ev.type = "submit" /\ ~ev.accepted
  /\ Trim(instruction) # <<>>
  /\ isSubmitting /\ Len(calls) = 1

\* C2: a submit whose instruction is empty after trimming issues no request and
\* changes nothing: instruction, step list, status, lock, error, draft, the
\* suspended calls, identity and store all keep their values.
C2_BlankSubmitNoop ==
  [][(ev'.type = "submit" /\ Trim(instruction) = <<>>) =>
       /\ ~ev'.accepted
       /\ UNCHANGED <<pageVars, calls, running, authVars>>]_vars

\* C2 witness: a whitespace-only instruction was submitted after an earlier
\* submission had completed, and was rejected
C2_Witness ==
  /\ ev.type = "submit" /\ ~ev.accepted
  /\ instruction = <<" ">>
  /\ ~isSubmitting
  /\ currentStatus = "completed"

\* the response carried steps
CarriedSteps(data) == data # Null /\ data.hasSteps /\ data.steps # <<>>

\* the last event is the end of a submission answered by a non-success response
\* whose body parsed
SettledNotOk == ev.type = "settled" /\ ev.resp.kind = "http" /\ ~ev.resp.ok

\* the error text of a non-success response: the body's message if present,
\* otherwise the generic failure message
NotOkErrorText(data) ==
  IF data # Null /\ data.message # Undefined THEN data.message ELSE GenericFailure

\* C4 as stated: after a non-success response the error is the body's message
\* or the generic text, the status is error, and the step list is the server's
\* if the response carried any, otherwise the optimistic snapshot.
C4_Original ==
  SettledNotOk =>
    /\ submitError = NotOkErrorText(ev.resp.body)
    /\ currentStatus = "error"
    /\ serverSteps = IF CarriedSteps(ev.resp.body) THEN ev.resp.body.steps
                     ELSE OptimisticSteps

\* C4 amended: after a non-success response the error is the body's message or
\* the generic text, the status is error, and the step list is the optimistic
\* snapshot whether or not the response carried steps.
C4_NotOkResponse ==
  SettledNotOk =>
    /\ submitError = NotOkErrorText(ev.resp.body)
    /\ currentStatus = "error"
    /\ serverSteps = OptimisticSteps
    /\ workflowSteps = WorkflowStepsOf(OptimisticSteps)

\* C4 witness: a non-success response that carried a message and steps has been
\* handled
C4_Witness ==
  /\ SettledNotOk
  /\ CarriedSteps(ev.resp.body)
  /\ ev.resp.body.message = "Quota exceeded"

\* the last event is the end of a submission whose fetch or whose body parsing
\* failed
SettledFailure == ev.type = "settled" /\ ev.resp.kind \in {"transport", "parse"}

\* C5: after a transport or parsing failure the status is error, the error text
\* is the exception's message or the generic fallback and is not empty, the step
\* list is the optimistic snapshot, and the lock is released.
C5_TransportFailure ==
  SettledFailure =>
    /\ currentStatus = "error"
    /\ submitError = IF ev.resp.failure.isError THEN ev.resp.failure.message
                     ELSE UnexpectedError
    /\ Truthy(submitError)
    /\ serverSteps = OptimisticSteps
    /\ ~isSubmitting

\* C5 witness: a failure that carries no message has been handled
C5_Witness == SettledFailure /\ ~ev.resp.failure.isError

\* the last event is the end of a submission answered by a success response
\* with a body
SettledOk ==
  ev.type = "settled" /\ ev.resp.kind = "http" /\ ev.resp.ok /\ ev.resp.body # Null

\* C6: after a success response the step list is exactly the server's (empty
\* when the body has none), the status is the server's, the draft is the
\* server's or cleared, the instruction is cleared and no error is recorded.
C6_SuccessResponse ==
  SettledOk =>
    LET data == ev.resp.body
    IN /\ serverSteps = (IF data.hasSteps THEN data.steps ELSE <<>>)
       /\ workflowSteps = WorkflowStepsOf(serverSteps)
       /\ data.status # Undefined => currentStatus = data.status
       /\ generatedEmail = data.generated_email
       /\ instruction = <<>>
       /\ submitError = NullString

\* C6 witness: a success response with a draft and four completed steps has
\* been handled
C6_Witness ==
  /\ SettledOk
  /\ generatedEmail = Draft
  /\ serverSteps = AllCompleted

\* the state shows the outcome of the response
Reflects(resp) ==
  IF resp.kind = "http" /\ resp.ok /\ resp.body # Null
  THEN /\ serverSteps = (IF resp.body.hasSteps THEN resp.body.steps ELSE <<>>)
       /\ currentStatus = Coalesce(resp.body.status, "error")
       /\ submitError = NullString
  ELSE /\ serverSteps = OptimisticSteps
       /\ currentStatus = "error"
       /\ submitError = (IF resp.failure.isError THEN resp.failure.message
                         ELSE UnexpectedError)

\* C7: the lock is released last: while a continuation is between its first
\* update and finally the lock is held, whenever the lock is free no submission
\* is unresolved, and at the release the state shows the outcome.
C7_LockReleasedLast ==
  /\ running # Idle => isSubmitting
  /\ ~isSubmitting => running = Idle /\ calls = <<>>
  /\ ev.type = "settled" => ~isSubmitting /\ Reflects(ev.resp)

\* C7 witness: every update of a failed submission is made and the lock is
\* still held
C7_Witness ==
  /\ running # Idle /\ running.pc = "finally"
  /\ isSubmitting
  /\ currentStatus = "error"
  /\ submitError # NullString

\* C8: while an accepted submission waits for its response the lock is held,
\* error and draft are cleared, the status is in_progress and the step list is
\* the optimistic snapshot, rendered as Input completed ("Instruction
\* received."), Processing in_progress, Sending idle, Completed idle.
C8_OptimisticState ==
  calls # <<>> =>
    /\ running = Idle
    /\ isSubmitting
    /\ submitError = NullString
    /\ generatedEmail = Null
    /\ currentStatus = "in_progress"
    /\ serverSteps = OptimisticSteps
    /\ [i \in 1..4 |-> workflowSteps[i].status] =
         <<"completed", "in_progress", "idle", "idle">>
    /\ Displayed(workflowSteps[1]) = "Instruction received."

\* C8 witness: a submit was accepted while the draft of the previous submission
\* was shown, and its request has not been answered
C8_Witness ==
  /\ ev.type = "submit" /\ ev.accepted /\ ev.hadDraft
  /\ Len(calls) = 1 /\ calls[1].phase = "fetch"

\* C9: a message whose origin is not the remote service's leaves identity,
\* store entry and authentication error as they were.
C9_ForeignOriginIgnored ==
  [][(ev'.type = "message" /\ ev'.origin # apiOrigin) => UNCHANGED authVars]_vars

\* C9 witness: a message of another origin carrying a non-empty email, not the
\* current identity, has been handled
C9_Witness ==
  /\ ev.type = "message" /\ ev.origin # apiOrigin
  /\ Truthy(EmailOf(ev.data))
  /\ user # ev.data

\* C10: a message is accepted exactly when its origin is the remote service's
\* and its email is non-empty; accepted, the identity is the payload, the store
\* holds its serialisation and the authentication error is cleared; rejected,
\* none of the three changes.
C10_MessageAcceptance ==
  [][ev'.type = "message" =>
       IF ev'.origin = apiOrigin /\ EmailOf(ev'.data) \notin {Undefined, ""}
       THEN /\ user' = ev'.data
            /\ localStorage' = Text(ev'.data)
            /\ authError' = NullString
       ELSE UNCHANGED authVars]_vars

\* C10 witness: a message was accepted while the popup-blocked error was shown
C10_Witness ==
  /\ ev.type = "message" /\ ev.origin = apiOrigin /\ ev.hadAuthError
  /\ user = ev.data
  /\ localStorage = Text(user)
  /\ authError = NullString

\* C11 as stated: no state reached by an accepted identity update, whether it
\* came as a message or as a storage change, still shows the popup-blocked
\* error.
C11_Original ==
  (\/ ev.type = "message" /\ ev.origin = apiOrigin /\ Truthy(EmailOf(ev.data))
   \/ ev.type = "storage" /\ StorageAccepted(ev.key, ev.newValue))
    => authError # PopupBlockedMessage

\* C12: a storage event sets the identity to the parsed new value exactly when
\* its key is the session key and the new value is a text that parses to a
\* payload with a non-empty email, and leaves the identity alone otherwise; in
\* every case the store keeps its entries.
C12_CrossTabChange ==
  [][ev'.type = "storage" =>
       /\ user' = IF /\ ev'.key = "email-agent-auth"
                     /\ ev'.newValue.text = "json"
                     /\ EmailOf(ev'.newValue.value) \notin {Undefined, ""}
                  THEN ev'.newValue.value
                  ELSE user
       /\ UNCHANGED <<localStorage, themeItem>>]_vars

\* C12 witness: a storage event of the session key was accepted, and the store
\* holds another text than the one the event carried
C12_Witness ==
  /\ ev.type = "storage" /\ ev.key = AUTH_STORAGE_KEY
  /\ ev.newValue.text = "json" /\ user = ev.newValue.value
  /\ Truthy(EmailOf(user))
  /\ localStorage # ev.newValue

\* C13: the effect at page load sets the identity to the stored entry exactly
\* when the entry is a non-empty text that parses to a payload with a non-empty
\* email; otherwise the identity stays unset; in every case no error is shown,
\* the store keeps its entry and the listeners are installed.
C13_Restore ==
  [][ev'.type = "restore" =>
       /\ user' = IF /\ localStorage \notin {NoItem, EmptyText}
                     /\ localStorage.text = "json"
                     /\ EmailOf(localStorage.value) \notin {Undefined, ""}
                  THEN localStorage.value
                  ELSE Null
       /\ authError' = NullString /\ submitError' = NullString
       /\ localStorage' = localStorage
       /\ mounted']_vars

\* C13 witness: the page loaded over an entry that does not parse
C13_Witness ==
  /\ ev.type = "restore"
  /\ localStorage = Malformed
  /\ user = Null /\ authError = NullString
  /\ mounted

\* C14: handleGoogleConnect with the popup blocked sets the popup-blocked error
\* and changes nothing else; with the popup opened it changes nothing at all;
\* in both cases it completes in one step, suspending nothing and requesting
\* nothing.
C14_Connect ==
  [][ev'.type = "connect" =>
       /\ IF ev'.blocked
          THEN authError' = "Please allow pop-ups to connect your Google account."
          ELSE authError' = authError
       /\ UNCHANGED <<user, localStorage, pageVars, themeVars, route, tabVars, mounted>>
       /\ UNCHANGED <<calls, running>> /\ fetched' = <<>>]_vars

\* C14 witness: the popup was blocked while an identity was set and persisted
C14_Witness ==
  /\ ev.type = "connect" /\ ev.blocked
  /\ user # Null /\ localStorage = Text(user)
  /\ authError = PopupBlockedMessage

\* C15: the identity is unset or has a non-empty email; a set identity is never
\* unset again; and the identity changes only to the payload an accepted
\* restore, message or storage event carried.
C15_IdentityMonotone ==
  /\ [](user = Null \/ EmailOf(user) \notin {Undefined, ""})
  /\ [][/\ user # Null => user' # Null
        /\ user' # user =>
             /\ EmailOf(user') \notin {Undefined, ""}
             /\ \/ ev'.type = "restore" /\ localStorage = Text(user')
                \/ ev'.type = "message" /\ ev'.origin = apiOrigin /\ ev'.data = user'
                \/ /\ ev'.type = "storage" /\ ev'.key = AUTH_STORAGE_KEY
                   /\ ev'.newValue = Text(user')]_vars

\* C15 witness: the session entry was removed in another tab, the storage event
\* arrived, and the identity is still set
C15_Witness ==
  /\ ev.type = "storage" /\ ev.key = AUTH_STORAGE_KEY /\ ev.newValue = NoItem
  /\ localStorage = NoItem
  /\ user # Null

\* C16: after a success response whose step list is empty or missing, the four
\* rendered steps are all idle and show the template captions; after a success
\* response without generated_email the draft is null.
C16_EmptyStepList ==
  SettledOk =>
    /\ (~ev.resp.body.hasSteps \/ ev.resp.body.steps = <<>>) =>
         /\ Len(workflowSteps) = 4
         /\ \A i \in 1..4 :
              /\ workflowSteps[i].status = "idle"
              /\ Displayed(workflowSteps[i]) = WORKFLOW_TEMPLATE[i].caption
    /\ ev.resp.body.generated_email = Null => generatedEmail = Null

\* C16 witness: a success response without a steps field and without a draft
\* has been handled
C16_Witness ==
  /\ SettledOk
  /\ ~ev.resp.body.hasSteps
  /\ ev.resp.body.generated_email = Null
  /\ workflowSteps[2].status = "idle"

\* C17: a step passes a request to fetch exactly when it is a submit made with
\* a non-blank instruction and the lock free, and then it passes one; a
\* rejected submit leaves the suspended calls as they were; and when a
\* submission has resolved nothing is left suspended or running.
C17_NoQueueNoRetry ==
  [][/\ Len(fetched') =
          IF ev'.type = "submit" /\ Trim(instruction) # <<>> /\ ~isSubmitting
          THEN 1 ELSE 0
     /\ ev'.type = "submit" => (ev'.accepted <=> Len(fetched') = 1)
     /\ (ev'.type = "submit" /\ ~ev'.accepted) => calls' = calls
     /\ ev'.type = "settled" => calls' = <<>> /\ running' = Idle]_vars

\* C17 witness: a submission failed in transport and has resolved; the
\* instruction is still in the input and no request was issued for it
C17_Witness ==
  /\ ev.type = "settled" /\ ev.resp.kind = "transport"
  /\ Trim(instruction) # <<>>
  /\ calls = <<>> /\ fetched = <<>>
  /\ ~isSubmitting

\* C18: a submit with a non-blank instruction and the lock free is accepted
\* whatever the identity, and its request carries the instruction and the
\* identity's email and name of that moment (both absent without identity); a
\* restore, message or storage event changes neither the suspended calls nor
\* the continuation nor the page state the continuation writes.
C18_RequestSnapshot ==
  [][/\ (ev'.type = "submit" /\ Trim(instruction) # <<>> /\ ~isSubmitting) =>
          /\ ev'.accepted
          /\ fetched' =
               <<[instruction |-> instruction,
                  user_email |-> IF user = Null THEN Undefined ELSE user.email,
                  user_name |-> IF user = Null THEN Undefined ELSE user.name]>>
          /\ Len(calls') = Len(calls) + 1
          /\ calls'[Len(calls')].body = fetched'[1]
     /\ ev'.type \in {"restore", "message", "storage"} =>
          UNCHANGED <<calls, running, pageVars>>]_vars

\* C18 witness: a submit without identity was accepted, and while its request
\* is in flight a message set the identity; the request still carries none
C18_Witness ==
  /\ ev.type = "message" /\ user = ev.data /\ user # Null
  /\ Len(calls) = 1
  /\ calls[1].body.user_email = Undefined /\ calls[1].body.user_name = Undefined

\* the steps of a submission: the submit, accepted or rejected, the arrival of
\* a response, the updates of the continuation and the release of the lock
SubmissionStep(e) == e.type \in {"submit", "response", "update", "settled"}

Phase ==
  IF calls # <<>> THEN "InFlight"
  ELSE IF running # Idle
       THEN IF running.resp.kind = "http" /\ running.resp.ok /\ running.resp.body # Null
            THEN "ReconcilingSuccess" ELSE "ReconcilingFailure"
  ELSE IF isSubmitting THEN "Locked" ELSE "Idle"

\* C20: the lock is held exactly from the accepted submit to the release; a
\* submission moves Idle -> InFlight -> ReconcilingSuccess or
\* ReconcilingFailure -> Idle and no other way; it leaves InFlight only at the
\* arrival of the response or of the failure, and the lock is released only by
\* the last step of the continuation; and when every awaited promise settles,
\* a held lock is eventually released.
C20_LockLifecycle ==
  /\ [](isSubmitting <=> Phase # "Idle")
  /\ [][/\ <<Phase, Phase'>> \in
             { <<"Idle", "Idle">>, <<"Idle", "InFlight">>, <<"InFlight", "InFlight">>,
               <<"InFlight", "ReconcilingSuccess">>, <<"InFlight", "ReconcilingFailure">>,
               <<"ReconcilingSuccess", "ReconcilingSuccess">>,
               <<"ReconcilingFailure", "ReconcilingFailure">>,
               <<"ReconcilingSuccess", "Idle">>, <<"ReconcilingFailure", "Idle">> }
        /\ (Phase = "Idle" /\ Phase' = "InFlight") => ev'.type = "submit"
        /\ (Phase = "InFlight" /\ ev'.type # "response") =>
             isSubmitting' /\ calls' = calls
        /\ (isSubmitting /\ ~isSubmitting') =>
             ev'.type = "settled" /\ running.pc = "finally"]_vars
  /\ (isSubmitting ~> ~isSubmitting)

\* C20 witness: a submission whose response body did not parse went through
\* its failure updates and released the lock
C20_Witness ==
  /\ ev.type = "settled" /\ ev.resp.kind = "parse"
  /\ Phase = "Idle"
  /\ currentStatus = "error"

\* the positions of the steps that repeat the name of an earlier step
LaterDuplicates(steps) ==
  {i \in DOMAIN steps : \E j \in 1..(i - 1) : steps[j].name = steps[i].name}

\* C21: a RenderStep whose key several server steps have takes its status
\* (idle when the step has none) and its detail from the first of them, and
\* taking a later duplicate out of the list changes no RenderStep.
C21_FirstMatchWins ==
  ev.type = "render" =>
    /\ \A k \in DOMAIN workflowSteps :
         HasStep(serverSteps, workflowSteps[k].key) =>
           LET first == FirstStep(serverSteps, workflowSteps[k].key)
           IN /\ workflowSteps[k].status =
                   (IF first.status = Undefined THEN "idle" ELSE first.status)
              /\ workflowSteps[k].detail = first.detail
    /\ \A i \in LaterDuplicates(serverSteps) :
         WorkflowStepsOf(Without(serverSteps, i)) = workflowSteps

\* C21 witness: the list names Processing twice, completed first and error
\* second, and Processing is rendered completed
C21_Witness ==
  /\ ev.type = "render"
  /\ Len(serverSteps) = 2
  /\ serverSteps[1].name = "Processing" /\ serverSteps[2].name = "Processing"
  /\ serverSteps[1].status = "completed" /\ serverSteps[2].status = "error"
  /\ workflowSteps[2].status = "completed"

\* C22: the effect at load, a message (accepted or not), a storage event and
\* handleGoogleConnect leave the instruction, the step list and its rendering,
\* the status, the lock, the error and the draft as they were, and suspend,
\* resume and request nothing, whether or not a submission is in flight.
C22_AuthIndependent ==
  [][ev'.type \in {"restore", "message", "storage", "connect"} =>
       /\ UNCHANGED <<instruction, serverSteps, workflowSteps, currentStatus,
                      isSubmitting, submitError, generatedEmail>>
       /\ UNCHANGED <<calls, running>>
       /\ fetched' = <<>>]_vars

\* C22 witness: a storage event set the identity while a request is in flight
C22_Witness ==
  /\ ev.type = "storage" /\ StorageAccepted(ev.key, ev.newValue)
  /\ user = Parse(ev.newValue)
  /\ isSubmitting /\ Len(calls) = 1
  /\ currentStatus = "in_progress"

\* what the two variants have in common: the page state, the identity, the
\* authentication error, the session entry, the listeners and the submissions
sharedVars == <<pageVars, authVars, mounted, calls, running>>

\* a step of the plain variant for the event e, the theme and its entry left
\* aside: the effect at load, or the handler or continuation step of e
PlainStep(e) ==
  \/ /\ e.type = "restore"
     /\ ~mounted /\ mounted'
     /\ user' = restoreFromStorage(localStorage, user)
     /\ fetched' = <<>>
     /\ UNCHANGED <<pageVars, authError, localStorage, calls, running>>
  \/ e.type = "message" /\ messageHandler(e.origin, e.data)
  \/ e.type = "storage" /\ storageHandler(e.key, e.newValue)
  \/ e.type = "write" /\ \E t \in OtherTabTexts : OtherTabWrite(t)
  \/ e.type = "connect" /\ handleGoogleConnect(e.blocked)
  \/ e.type = "input" /\ \E t \in Instructions : setInstruction(t)
  \/ e.type = "submit" /\ handleSubmit
  \/ e.type = "response" /\ Arrival
  \/ e.type \in {"update", "settled"} /\ Continuation

\* C23: the themed variant starts in the state of the plain variant; each of
\* its steps is a step of the plain variant on the state they share, with the
\* same request, or a toggle of the theme, which changes none of that state
\* and requests nothing.
C23_SameMachine ==
  /\ (InitPage /\ localStorage \in StoredTexts)
  /\ [][IF ev'.type = "theme"
        THEN UNCHANGED sharedVars /\ fetched' = <<>>
        ELSE PlainStep(ev')]_vars

\* C23 witness: the theme was toggled to dark in the themed variant while an
\* identity is set and a request is in flight
C23_Witness ==
  /\ ev.type = "theme" /\ theme = "dark" /\ themeItem = "dark"
  /\ user # Null
  /\ isSubmitting /\ Len(calls) = 1

\* C24: while a request is in flight the status is in_progress, the step list
\* is the optimistic snapshot, and the error and the draft are unset; and while
\* the lock is held only the steps of the submission's own continuation, which
\* follow the arrival of its response or failure, change any of the four.
C24_InFlightState ==
  /\ [](calls # <<>> =>
          /\ isSubmitting
          /\ currentStatus = "in_progress"
          /\ serverSteps = OptimisticSteps
          /\ submitError = NullString
          /\ generatedEmail = Null)
  /\ [][(isSubmitting /\ ev'.type \notin {"update", "settled"}) =>
          UNCHANGED <<currentStatus, serverSteps, submitError, generatedEmail>>]_vars
  /\ [][ev'.type \in {"update", "settled"} => calls = <<>> /\ running # Idle]_vars

\* C24 witness: the user typed another instruction while the request of the
\* first is in flight
C24_Witness ==
  /\ ev.type = "input"
  /\ Len(calls) = 1 /\ calls[1].body.instruction # instruction
  /\ currentStatus = "in_progress" /\ serverSteps = OptimisticSteps

\* the response took handleSubmit through its try block to the end
Succeeded(resp) == resp.kind = "http" /\ resp.ok /\ resp.body # Null

\* C25: the arrival of a response and every step of a continuation that went
\* to the catch block leave the instruction as it is; at the release after a
\* success the instruction is empty; a submit that follows the release of a
\* failed submission is accepted when the instruction is not blank and
\* requests with that instruction, and a submit that follows the release of a
\* successful one is rejected, requests nothing and changes nothing.
C25_Resubmission ==
  [][/\ ev'.type = "response" => instruction' = instruction
     /\ (running # Idle /\ ~Succeeded(running.resp)) => instruction' = instruction
     /\ (ev'.type = "settled" /\ Succeeded(ev'.resp)) => instruction' = <<>>
     /\ (ev.type = "settled" /\ ev'.type = "submit") =>
          IF ~Succeeded(ev.resp) /\ Trim(instruction) # <<>>
          THEN /\ ev'.accepted
               /\ Len(fetched') = 1 /\ fetched'[1].instruction = instruction
               /\ instruction' = instruction
          ELSE /\ ~ev'.accepted
               /\ fetched' = <<>>
               /\ UNCHANGED <<pageVars, calls>>]_vars

\* C25 witness: a submit was accepted while the error of the failed submission
\* before it was shown, and its request carries the instruction in the input
C25_Witness ==
  /\ ev.type = "submit" /\ ev.accepted /\ ev.hadError
  /\ Len(fetched) = 1 /\ fetched[1].instruction = instruction
  /\ Len(calls) = 1

\* C27: the callback page replaces the session entry by the serialisation of
\* its payload exactly when the payload is a text that parses to a value with a
\* non-empty email, and leaves the entry alone otherwise; in every case the
\* window then shows the home page; and after a stored payload the effect of
\* the home page sets the identity to that payload.
C27_Callback ==
  [][/\ ev'.type = "callback" =>
          /\ localStorage' =
               IF /\ ev'.payload \notin {NoItem, EmptyText}
                  /\ ev'.payload.text = "json"
                  /\ EmailOf(ev'.payload.value) \notin {Undefined, ""}
               THEN Text(ev'.payload.value)
               ELSE localStorage
          /\ route' = "/"
     /\ (ev.type = "callback" /\ CallbackWrites(ev.payload) /\ ev'.type = "restore") =>
          user' = ev.payload.value]_vars

\* C27 witness: the callback page stored a payload over another entry, and the
\* home page restored it as identity
C27_Witness ==
  /\ ev.type = "restore" /\ route = "/"
  /\ user = [email |-> "ann@example.com", name |-> "Ann"]
  /\ localStorage = Text(user)

\* every message and every storage event has been delivered
Quiescent == \A t \in Tabs : tabMail[t] = <<>> /\ tabQueue[t] = <<>>

\* C26 as stated: once every pending message and storage event has been
\* delivered, the identity of each tab is the payload the session entry holds
\* (none when there is no entry).
C26_Original ==
  Quiescent => \A t \in Tabs : tabUser[t] = restoreFromStorage(localStorage, Null)

====
